---- MODULE Spec2Model ----
(***************************************************************************)
(* Model of scripts/fetch_insider_data.py: the EDGAR daily-index scanner,  *)
(* the index parser, the Form 4 ownership-document parser and the two      *)
(* collectors (Form 4 transactions, Schedule 13D/13G filings).             *)
(*                                                                         *)
(* Strings are sequences of one-character strings, so that strip, split,   *)
(* startswith, upper and string comparison are computed as Python computes *)
(* them.  NULL stands for Python's None.                                   *)
(***************************************************************************)
EXTENDS Integers, Sequences, FiniteSets, TLC

VARIABLES
    call,        \* pure-function harness: the function applied and its arguments
    ret,         \* pure-function harness: the value returned (<<>> before the call)
    collector,   \* which collector runs: "form4" or "sched13"
    days_back,   \* argument of the collector
    max_filings, \* argument of the collector
    pc,          \* position of the run
    offset,      \* loop counter of iter_daily_indexes
    idx_served,  \* what the archive answered for each day of the window
    idx_days,    \* iter_daily_indexes: out
    matched,     \* filings before the sort and the cap (scan order)
    filings,     \* filings after sorted(...)[:max_filings]
    fi,          \* number of filings the per-filing loop has processed
    served,      \* what the archive answered for each processed filing
    collected,   \* all_txs / results before the final sort
    rows,        \* the value returned by the collector
    net          \* network trace: "fetch" and "sleep" events in program order

vars == <<call, ret, collector, days_back, max_filings, pc, offset, idx_served,
          idx_days, matched, filings, fi, served, collected, rows, net>>

\* None: a sequence no string of characters is equal to
NULL == <<"None">>

\* ---------------------------------------------------------------- bounds
MaxLines == 3
MaxOwners == 2
MaxTxs == 2
MaxDaysBack == 2
MaxFilingsArg == 2

\* ---------------------------------------------------------------- strings
Min(S) == CHOOSE x \in S : \A y \in S : x <= y

IsSpace(c) == c \in {" ", "\t"}

RECURSIVE LStrip(_)
LStrip(s) == IF s # <<>> /\ IsSpace(Head(s)) THEN LStrip(Tail(s)) ELSE s

RECURSIVE RStrip(_)
RStrip(s) ==
    IF s # <<>> /\ IsSpace(s[Len(s)]) THEN RStrip(SubSeq(s, 1, Len(s) - 1)) ELSE s

\* str.strip()
Strip(s) == RStrip(LStrip(s))

\* str.split(d): always at least one field
RECURSIVE Split(_, _)
Split(s, d) ==
    IF \A i \in 1..Len(s) : s[i] # d THEN <<s>>
    ELSE LET k == Min({i \in 1..Len(s) : s[i] = d})
         IN <<SubSeq(s, 1, k - 1)>> \o Split(SubSeq(s, k + 1, Len(s)), d)

\* str.splitlines() over the line terminator "\n"
RECURSIVE splitlines(_)
splitlines(s) ==
    IF s = <<>> THEN <<>>
    ELSE IF \A i \in 1..Len(s) : s[i] # "\n" THEN <<s>>
    ELSE LET k == Min({i \in 1..Len(s) : s[i] = "\n"})
         IN <<SubSeq(s, 1, k - 1)>> \o splitlines(SubSeq(s, k + 1, Len(s)))

\* str.startswith(p)
StartsWith(s, p) == Len(s) >= Len(p) /\ SubSeq(s, 1, Len(p)) = p

UpperChar(c) ==
    CASE c = "a" -> "A" [] c = "c" -> "C" [] c = "d" -> "D" [] c = "g" -> "G"
      [] c = "e" -> "E" [] c = "k" -> "K" [] c = "p" -> "P" [] c = "r" -> "R"
      [] c = "s" -> "S" [] c = "t" -> "T" [] c = "u" -> "U" [] c = "y" -> "Y"
      [] OTHER -> c

\* str.upper()
Upper(s) == [i \in 1..Len(s) |-> UpperChar(s[i])]

\* code point of a character (ASCII)
Ord(c) ==
    CASE c = "\t" -> 9 [] c = "\n" -> 10 [] c = " " -> 32 [] c = "-" -> 45
      [] c = "," -> 44 [] c = "/" -> 47
      [] c = "0" -> 48 [] c = "1" -> 49 [] c = "2" -> 50 [] c = "3" -> 51
      [] c = "4" -> 52 [] c = "5" -> 53 [] c = "6" -> 54 [] c = "7" -> 55
      [] c = "8" -> 56 [] c = "9" -> 57
      [] c = "A" -> 65 [] c = "B" -> 66 [] c = "C" -> 67 [] c = "D" -> 68
      [] c = "E" -> 69 [] c = "G" -> 71 [] c = "K" -> 75 [] c = "P" -> 80
      [] c = "R" -> 82 [] c = "S" -> 83 [] c = "T" -> 84 [] c = "U" -> 85
      [] c = "Y" -> 89
      [] c = "a" -> 97 [] c = "c" -> 99 [] c = "d" -> 100 [] c = "e" -> 101
      [] c = "g" -> 103 [] c = "k" -> 107 [] c = "p" -> 112 [] c = "r" -> 114
      [] c = "s" -> 115 [] c = "t" -> 116 [] c = "u" -> 117 [] c = "y" -> 121
      [] c = "|" -> 124
      [] OTHER -> 63

\* Python's str < str: lexicographic by code point, a proper prefix is smaller
RECURSIVE StrLess(_, _)
StrLess(a, b) ==
    IF b = <<>> THEN FALSE
    ELSE IF a = <<>> THEN TRUE
    ELSE IF Head(a) = Head(b) THEN StrLess(Tail(a), Tail(b))
    ELSE Ord(Head(a)) < Ord(Head(b))

RECURSIVE Join(_, _)
Join(ss, d) ==
    IF ss = <<>> THEN <<>>
    ELSE IF Len(ss) = 1 THEN ss[1]
    ELSE ss[1] \o <<d>> \o Join(Tail(ss), d)

\* str.endswith(p)
EndsWith(s, p) == Len(s) >= Len(p) /\ SubSeq(s, Len(s) - Len(p) + 1, Len(s)) = p

\* p in s
Contains(s, p) == \E i \in 1..(Len(s) - Len(p) + 1) : SubSeq(s, i, i + Len(p) - 1) = p

LowerChar(c) ==
    CASE c = "A" -> "a" [] c = "B" -> "b" [] c = "C" -> "c" [] c = "D" -> "d"
      [] c = "E" -> "e" [] c = "F" -> "f" [] c = "G" -> "g" [] c = "H" -> "h"
      [] c = "I" -> "i" [] c = "J" -> "j" [] c = "K" -> "k" [] c = "L" -> "l"
      [] c = "M" -> "m" [] c = "N" -> "n" [] c = "O" -> "o" [] c = "P" -> "p"
      [] c = "Q" -> "q" [] c = "R" -> "r" [] c = "S" -> "s" [] c = "T" -> "t"
      [] c = "U" -> "u" [] c = "V" -> "v" [] c = "W" -> "w" [] c = "X" -> "x"
      [] c = "Y" -> "y" [] c = "Z" -> "z"
      [] OTHER -> c

\* str.lower()
Lower(s) == [i \in 1..Len(s) |-> LowerChar(s[i])]

\* x or ""
OrEmpty(x) == IF x = NULL THEN <<>> ELSE x

\* Python's tuple < tuple over tuples of strings
RECURSIVE KeyLess(_, _)
KeyLess(a, b) ==
    IF b = <<>> THEN FALSE
    ELSE IF a = <<>> THEN TRUE
    ELSE IF Head(a) = Head(b) THEN KeyLess(Tail(a), Tail(b))
    ELSE StrLess(Head(a), Head(b))

\* variant: ties are reversed, as by sorted(...)[::-1]
GoesBefore_TiesReversed(k, kh) == ~KeyLess(k, kh)

\* sorted(..., reverse=True) is stable: an element goes in front of the first
\* element whose key is strictly smaller, hence behind every equal key met
\* earlier.
GoesBefore(k, kh) == KeyLess(kh, k)

RECURSIVE InsertDesc(_, _, _)
InsertDesc(perm, i, keys) ==
    IF perm = <<>> THEN <<i>>
    ELSE IF GoesBefore(keys[i], keys[Head(perm)]) THEN <<i>> \o perm
    ELSE <<Head(perm)>> \o InsertDesc(Tail(perm), i, keys)

RECURSIVE SortPermDesc(_, _)
SortPermDesc(keys, n) ==
    IF n = 0 THEN <<>> ELSE InsertDesc(SortPermDesc(keys, n - 1), n, keys)

\* sorted(seq, key=..., reverse=True), keys[i] being the key of seq[i]
sorted_reverse(seq, keys) ==
    LET perm == SortPermDesc(keys, Len(seq))
    IN [k \in 1..Len(seq) |-> seq[perm[k]]]

\* variant: the slice keeps one element too many
Take_OneMore(seq, n) == SubSeq(seq, 1, IF n + 1 < Len(seq) THEN n + 1 ELSE Len(seq))

\* seq[:n]
Take(seq, n) == SubSeq(seq, 1, IF n < Len(seq) THEN n ELSE Len(seq))

\* ---------------------------------------------------------------- index parser
ArchiveRoot == <<"https://www.sec.gov/Archives/">>
Dashes == <<"-", "-", "-", "-", "-">>

is_form4(ft) == ft \in {<<"4">>, <<"4", "/", "A">>}

is_sched13(ft) ==
    \/ StartsWith(Upper(ft), <<"S", "C", " ", "1", "3", "D">>)
    \/ StartsWith(Upper(ft), <<"S", "C", " ", "1", "3", "G">>)

form_predicate(p, ft) == IF p = "is_form4" THEN is_form4(ft) ELSE is_sched13(ft)

\* variant: filed_date is not trimmed
IdxEntry_RawDate(line) ==
    LET parts == Split(line, "|")
    IN [cik |-> Strip(parts[1]),
        company_name |-> Strip(parts[2]),
        form_type |-> Strip(parts[3]),
        filed_date |-> parts[4],
        file_name |-> Strip(parts[5]),
        filing_url |-> ArchiveRoot \o Strip(parts[5])]

IdxEntry(line) ==
    LET parts == Split(line, "|")
    IN [cik |-> Strip(parts[1]),
        company_name |-> Strip(parts[2]),
        form_type |-> Strip(parts[3]),
        filed_date |-> Strip(parts[4]),
        file_name |-> Strip(parts[5]),
        filing_url |-> ArchiveRoot \o Strip(parts[5])]

\* variant: the predicate is applied to the untrimmed form_type
IdxKeep_Untrimmed(line, p) ==
    /\ Strip(line) # <<>>
    /\ Len(Split(line, "|")) = 5
    /\ form_predicate(p, Split(line, "|")[3])

IdxKeep(line, p) ==
    /\ Strip(line) # <<>>
    /\ Len(Split(line, "|")) = 5
    /\ form_predicate(p, Strip(Split(line, "|")[3]))

parse_idx_for_forms(idx_text, p) ==
    LET lines == splitlines(idx_text)
        dashed == {i \in 1..Len(lines) : StartsWith(lines[i], Dashes)}
    IN IF dashed = {} THEN <<>>
       ELSE LET start == Min(dashed) + 1
                rest == SubSeq(lines, start, Len(lines))
                keep(line) == IdxKeep(line, p)
                kept == SelectSeq(rest, keep)
            IN [i \in 1..Len(kept) |-> IdxEntry(kept[i])]

\* ---------------------------------------------------------------- numbers
DigitVal(c) ==
    CASE c = "0" -> 0 [] c = "1" -> 1 [] c = "2" -> 2 [] c = "3" -> 3
      [] c = "4" -> 4 [] c = "5" -> 5 [] c = "6" -> 6 [] c = "7" -> 7
      [] c = "8" -> 8 [] c = "9" -> 9 [] OTHER -> -1

RECURSIVE DropZeros(_)
DropZeros(s) == IF Len(s) > 1 /\ Head(s) = "0" THEN DropZeros(Tail(s)) ELSE s

NotComma(c) == c # ","

\* float(x.replace(",", "")), None on failure.  The amounts of the document
\* pool are integer literals (with or without thousands separators) or text
\* float() rejects, so the float is represented by its canonical numeral.
safe_float(x) ==
    IF x = NULL THEN NULL
    ELSE LET y == Strip(SelectSeq(x, NotComma))
         IN IF y # <<>> /\ \A i \in 1..Len(y) : DigitVal(y[i]) >= 0
            THEN DropZeros(y) ELSE NULL

\* int(round(f)); the identity on the integer-valued floats of this model
safe_int_from_float(x) == safe_float(x)

\* ---------------------------------------------------------------- ownership document
\* An ownership document is either text ElementTree rejects (wellformed =
\* FALSE) or a tree: the issuer node, the reportingOwner children of the
\* root in document order and the nonDerivativeTransaction children of
\* nonDerivativeTable in document order.  A leaf is its text, or NULL when
\* the element, or the node it is looked up under, is missing or empty.

\* get(node, path, default=None) on a leaf
get(el) == IF el = NULL THEN NULL ELSE Strip(el)

\* Python truthiness of an Optional[str]
Truthy(x) == x # NULL /\ x # <<>>

norm_bool(val) ==
    IF ~Truthy(val) THEN FALSE
    ELSE Upper(Strip(val)) \in {<<"1">>, <<"Y">>, <<"Y", "E", "S">>, <<"T", "R", "U", "E">>}

relation_label(is_off, is_dir, is_10p, is_other) ==
    LET p1 == IF is_off THEN <<<<"Officer">>>> ELSE <<>>
        p2 == p1 \o (IF is_dir THEN <<<<"Director">>>> ELSE <<>>)
        p3 == p2 \o (IF is_10p THEN <<<<"10% Owner">>>> ELSE <<>>)
        rel_parts == p3 \o (IF is_other /\ p3 = <<>> THEN <<<<"Other">>>> ELSE <<>>)
    IN IF rel_parts # <<>> THEN Join(rel_parts, ", ") ELSE <<"Other">>

OwnerOf(ro) ==
    [insider_name |-> get(ro.rptOwnerName),
     insider_cik |-> get(ro.rptOwnerCik),
     relation |-> relation_label(norm_bool(get(ro.isOfficer)), norm_bool(get(ro.isDirector)),
                                 norm_bool(get(ro.isTenPercentOwner)), norm_bool(get(ro.isOther))),
     officer_title |-> get(ro.officerTitle)]

NoOwner ==
    [insider_name |-> NULL, insider_cik |-> NULL, relation |-> NULL, officer_title |-> NULL]

tx_description(tx_desc, tx_code) ==
    IF Truthy(tx_desc) THEN tx_desc
    ELSE IF tx_code = <<"P">> THEN <<"Purchase (Open Market)">>
    ELSE IF tx_code = <<"S">> THEN <<"Sale">>
    ELSE <<"Code ">> \o (IF Truthy(tx_code) THEN tx_code ELSE <<"?">>)

BaseOf(issuer, tx) ==
    [issuer_name |-> get(issuer.issuerName),
     issuer_symbol |-> get(issuer.issuerTradingSymbol),
     issuer_cik |-> get(issuer.issuerCik),
     transaction_date |-> get(tx.transactionDate),
     transaction_code |-> get(tx.transactionCode),
     transaction_description |->
         tx_description(get(tx.transactionDescription), get(tx.transactionCode)),
     shares_traded |-> safe_int_from_float(get(tx.transactionShares)),
     price |-> safe_float(get(tx.transactionPricePerShare)),
     shares_held_after |-> safe_int_from_float(get(tx.sharesOwnedFollowingTransaction)),
     owner_type |-> get(tx.directOrIndirectOwnership),
     timeliness |-> get(tx.transactionTimeliness),
     is_buy |-> get(tx.transactionCode) = <<"P">>,
     is_sale |-> get(tx.transactionCode) = <<"S">>]

\* {**base, **o}
Merge(base, o) == [k \in DOMAIN base \cup DOMAIN o |-> IF k \in DOMAIN o THEN o[k] ELSE base[k]]

\* variant: only the first owner is attached
TxFanOut_FirstOwnerOnly(base, owners) ==
    IF owners = <<>> THEN <<Merge(base, NoOwner)>> ELSE <<Merge(base, owners[1])>>

\* the records one transaction node appends to txs
TxFanOut(base, owners) ==
    IF owners = <<>> THEN <<Merge(base, NoOwner)>>
    ELSE [j \in 1..Len(owners) |-> Merge(base, owners[j])]

RECURSIVE Flatten(_)
Flatten(ss) == IF ss = <<>> THEN <<>> ELSE Head(ss) \o Flatten(Tail(ss))

\* the value returned for a well-formed document (a malformed one raises)
parse_form4_xml_transactions(doc) ==
    LET owners == [j \in 1..Len(doc.reportingOwner) |-> OwnerOf(doc.reportingOwner[j])]
    IN Flatten([i \in 1..Len(doc.nonDerivativeTransaction) |->
                   TxFanOut(BaseOf(doc.issuer, doc.nonDerivativeTransaction[i]), owners)])

\* ---------------------------------------------------------------- input pools
\* Index lines, each given by its raw fields; the line is the fields joined
\* by the delimiter.
LineSeparator == <<<<"-", "-", "-", "-", "-", "-">>>>
LineBlank == <<<<" ">>>>
LineForm4 == <<<<"1">>, <<"A">>, <<"4">>, <<"2", "0", "2", "4", "0", "1", "0", "5">>, <<"p", "1">>>>
LineForm4A == <<<<" ", "2">>, <<"B", " ">>, <<" ", "4", "/", "A", " ">>, <<" ", "2", "0", "2", "4", "0", "1", "0", "4", " ">>, <<"p", "2", " ">>>>
Line10K == <<<<"3">>, <<"C">>, <<"1", "0", "-", "K">>, <<"2", "0", "2", "4", "0", "1", "0", "5">>, <<"p", "3">>>>
LineFourFields == <<<<"1">>, <<"A">>, <<"4">>, <<"2", "0", "2", "4", "0", "1", "0", "5">>>>
LineSixFields == <<<<"1">>, <<"A">>, <<"4">>, <<"2", "0", "2", "4", "0", "1", "0", "5">>, <<"p", "1">>, <<"4">>>>
LineSched13 == <<<<"4">>, <<"D">>, <<"s", "c", " ", "1", "3", "d", "/", "A">>, <<"2", "0", "2", "4", "0", "1", "0", "3">>, <<"p", "4">>>>
LineOddDate == <<<<"5">>, <<"E">>, <<"4">>, <<"2", "0", "2", "4">>, <<"p", "5">>>>

LinePool ==
    {LineSeparator, LineBlank, LineForm4, LineForm4A, Line10K, LineFourFields,
     LineSixFields, LineSched13, LineOddDate}

RenderLine(fields) == Join(fields, "|")

RenderText(src) == Join([i \in 1..Len(src) |-> RenderLine(src[i])], "\n")

SeqsUpTo(S, n) == UNION {[1..k -> S] : k \in 0..n}

OwnerDirector ==
    [rptOwnerName |-> <<"A">>, rptOwnerCik |-> <<"1">>, isDirector |-> <<"1">>,
     isOfficer |-> <<"0">>, isTenPercentOwner |-> NULL, isOther |-> NULL,
     officerTitle |-> NULL]
OwnerOfficer ==
    [rptOwnerName |-> <<" ", "B", " ">>, rptOwnerCik |-> <<"2">>, isDirector |-> NULL,
     isOfficer |-> <<"t", "r", "u", "e">>, isTenPercentOwner |-> <<"y">>, isOther |-> NULL,
     officerTitle |-> <<"C", "E", "O">>]
OwnerBare ==
    [rptOwnerName |-> NULL, rptOwnerCik |-> NULL, isDirector |-> NULL,
     isOfficer |-> NULL, isTenPercentOwner |-> NULL, isOther |-> NULL,
     officerTitle |-> NULL]

OwnerPool == {OwnerDirector, OwnerOfficer, OwnerBare}

TxPurchase ==
    [transactionDate |-> <<"2", "0", "2", "4", "-", "0", "1", "-", "0", "5">>,
     transactionCode |-> <<"P">>, transactionDescription |-> NULL,
     transactionShares |-> <<"1", ",", "0", "0", "0">>, transactionPricePerShare |-> <<"1", "0">>,
     sharesOwnedFollowingTransaction |-> <<"0", "5", ",", "0", "0", "0">>,
     directOrIndirectOwnership |-> <<"D">>, transactionTimeliness |-> NULL]
TxSaleUndated ==
    [transactionDate |-> NULL,
     transactionCode |-> <<"S">>, transactionDescription |-> NULL,
     transactionShares |-> <<"a", "b", "c">>, transactionPricePerShare |-> NULL,
     sharesOwnedFollowingTransaction |-> <<"7">>,
     directOrIndirectOwnership |-> <<"I">>, transactionTimeliness |-> <<"E">>]
TxGrant ==
    [transactionDate |-> <<"2", "0", "2", "4", "-", "0", "1", "-", "0", "4">>,
     transactionCode |-> <<"A">>, transactionDescription |-> <<"G", "r", "a", "n", "t">>,
     transactionShares |-> <<"2", "0">>, transactionPricePerShare |-> NULL,
     sharesOwnedFollowingTransaction |-> NULL,
     directOrIndirectOwnership |-> <<"D">>, transactionTimeliness |-> NULL]
TxBlankDate ==
    [transactionDate |-> <<" ">>,
     transactionCode |-> NULL, transactionDescription |-> NULL,
     transactionShares |-> NULL, transactionPricePerShare |-> NULL,
     sharesOwnedFollowingTransaction |-> NULL,
     directOrIndirectOwnership |-> NULL, transactionTimeliness |-> NULL]

TxPool == {TxPurchase, TxSaleUndated, TxGrant, TxBlankDate}

IssuerNode == [issuerCik |-> <<"9">>, issuerName |-> <<"E">>, issuerTradingSymbol |-> <<"E", "C">>]
IssuerMissing == [issuerCik |-> NULL, issuerName |-> NULL, issuerTradingSymbol |-> NULL]

Malformed ==
    [wellformed |-> FALSE, issuer |-> IssuerMissing, reportingOwner |-> <<>>,
     nonDerivativeTransaction |-> <<>>]

Tree(issuer, owners, txs) ==
    [wellformed |-> TRUE, issuer |-> issuer, reportingOwner |-> owners,
     nonDerivativeTransaction |-> txs]

DocPool ==
    {Malformed} \cup
    {Tree(i, o, t) : i \in {IssuerNode, IssuerMissing},
                     o \in SeqsUpTo(OwnerPool, MaxOwners), t \in SeqsUpTo(TxPool, MaxTxs)}

\* ---------------------------------------------------------------- the run, idle
NoCall == [fn |-> "none"]

RunIdle ==
    /\ collector = "none" /\ days_back = 0 /\ max_filings = 0 /\ offset = 0
    /\ idx_served = <<>> /\ idx_days = <<>> /\ matched = <<>> /\ filings = <<>> /\ fi = 0
    /\ served = <<>> /\ collected = <<>> /\ rows = <<>> /\ net = <<>>

runVars ==
    <<collector, days_back, max_filings, offset, idx_served, idx_days, matched, filings, fi,
      served, collected, rows, net>>

\* ---------------------------------------------------------------- parse_idx_for_forms alone
InitIdx ==
    /\ \E src \in SeqsUpTo(LinePool, MaxLines), p \in {"is_form4", "is_sched13"} :
          call = [fn |-> "parse_idx_for_forms", src |-> src,
                  idx_text |-> RenderText(src), p |-> p]
    /\ ret = <<>>
    /\ pc = "call"
    /\ RunIdle

CallParseIdx ==
    /\ pc = "call"
    /\ call.fn = "parse_idx_for_forms"
    /\ ret' = parse_idx_for_forms(call.idx_text, call.p)
    /\ pc' = "returned"
    /\ UNCHANGED <<call, runVars>>

NextIdx == CallParseIdx

SpecIdx == InitIdx /\ [][NextIdx]_vars

\* ---------------------------------------------------------------- parse_form4_xml_transactions alone
InitXml ==
    /\ \E doc \in DocPool : call = [fn |-> "parse_form4_xml_transactions", doc |-> doc]
    /\ ret = <<>>
    /\ pc = "call"
    /\ RunIdle

\* ET.fromstring accepts the text
CallParseXml ==
    /\ pc = "call"
    /\ call.fn = "parse_form4_xml_transactions"
    /\ call.doc.wellformed
    /\ ret' = parse_form4_xml_transactions(call.doc)
    /\ pc' = "returned"
    /\ UNCHANGED <<call, runVars>>

\* ET.fromstring raises ParseError
CallParseXmlRaises ==
    /\ pc = "call"
    /\ call.fn = "parse_form4_xml_transactions"
    /\ ~call.doc.wellformed
    /\ pc' = "raised"
    /\ UNCHANGED <<call, ret, runVars>>

NextXml == CallParseXml \/ CallParseXmlRaises

SpecXml == InitXml /\ [][NextXml]_vars

\* ---------------------------------------------------------------- daily index scan
\* fetch_master_idx against an archive that answers a: a transport error
\* raises out of requests.get before the sleep; otherwise the sleep follows
\* and the text is returned on status 200 only.
fetch_master_idx(a) ==
    IF a.kind = "transport" THEN [events |-> <<"fetch">>, raised |-> TRUE, txt |-> NULL]
    ELSE [events |-> <<"fetch", "sleep">>, raised |-> FALSE,
          txt |-> IF a.kind = "ok" THEN a.text ELSE NULL]

\* ---------------------------------------------------------------- accession manifest
ManifestNoXml == <<<<"a", ".", "t", "x", "t">>>>
ManifestXml == <<<<"a", ".", "t", "x", "t">>, <<"b", ".", "X", "M", "L">>, <<"D", "o", "c", "4", ".", "x", "m", "l">>>>

IsXmlName(n) == EndsWith(Lower(n), <<".", "x", "m", "l">>)

IsPreferredName(n) == Contains(Lower(n), <<"d", "o", "c", "4">>) \/ Contains(Lower(n), <<"o", "w", "n", "e", "r", "s", "h", "i", "p">>)

\* the item name find_ownership_xml_url selects from the manifest, or NULL
ManifestXmlName(items) ==
    LET xml_candidates == SelectSeq(items, IsXmlName)
        preferred == SelectSeq(xml_candidates, IsPreferredName)
    IN IF xml_candidates = <<>> THEN NULL
       ELSE IF preferred # <<>> THEN preferred[1] ELSE xml_candidates[1]

\* ---------------------------------------------------------------- Form 4 filing
\* tx["filing_url"] = filing_url; tx["filed_date"] = f["filed_date"]
StampForm4(rec, f) == Merge(rec, [filing_url |-> f.filing_url, filed_date |-> f.filed_date])

\* variant: the parse of the document is outside the try block
Form4Step_NoTry(f, a) ==
    IF a.manifest = "transport"
    THEN [events |-> <<"fetch">>, recs |-> <<>>, escapes |-> FALSE]
    ELSE IF a.manifest \in {"status", "invalid"}
    THEN [events |-> <<"fetch", "sleep">>, recs |-> <<>>, escapes |-> FALSE]
    ELSE IF ManifestXmlName(a.items) = NULL
    THEN [events |-> <<"fetch", "sleep">>, recs |-> <<>>, escapes |-> FALSE]
    ELSE IF a.xml = "transport"
    THEN [events |-> <<"fetch", "sleep", "fetch">>, recs |-> <<>>, escapes |-> FALSE]
    ELSE IF a.xml = "status"
    THEN [events |-> <<"fetch", "sleep", "fetch", "sleep">>, recs |-> <<>>,
          escapes |-> FALSE]
    ELSE IF ~a.doc.wellformed
    THEN [events |-> <<"fetch", "sleep", "fetch", "sleep">>, recs |-> <<>>,
          escapes |-> TRUE]
    ELSE LET txs == parse_form4_xml_transactions(a.doc)
         IN [events |-> <<"fetch", "sleep", "fetch", "sleep">>,
             recs |-> [i \in 1..Len(txs) |-> StampForm4(txs[i], f)],
             escapes |-> FALSE]

\* the body of the try block of collect_form4_transactions for filing f
\* against an archive that answers a: the network events, the records added
\* to all_txs, and whether an exception leaves the loop (never: every
\* exception is caught by "except Exception").
Form4Step(f, a) ==
    IF a.manifest = "transport"
    THEN [events |-> <<"fetch">>, recs |-> <<>>, escapes |-> FALSE]
    ELSE IF a.manifest \in {"status", "invalid"}
    THEN [events |-> <<"fetch", "sleep">>, recs |-> <<>>, escapes |-> FALSE]
    ELSE IF ManifestXmlName(a.items) = NULL
    THEN [events |-> <<"fetch", "sleep">>, recs |-> <<>>, escapes |-> FALSE]
    ELSE IF a.xml = "transport"
    THEN [events |-> <<"fetch", "sleep", "fetch">>, recs |-> <<>>, escapes |-> FALSE]
    ELSE IF a.xml = "status" \/ ~a.doc.wellformed
    THEN [events |-> <<"fetch", "sleep", "fetch", "sleep">>, recs |-> <<>>,
          escapes |-> FALSE]
    ELSE LET txs == parse_form4_xml_transactions(a.doc)
         IN [events |-> <<"fetch", "sleep", "fetch", "sleep">>,
             recs |-> [i \in 1..Len(txs) |-> StampForm4(txs[i], f)],
             escapes |-> FALSE]

\* key=lambda x: (x.get("transaction_date") or "", x.get("filed_date") or "")
Form4SortKey(rec) == <<OrEmpty(rec.transaction_date), OrEmpty(rec.filed_date)>>

\* ---------------------------------------------------------------- Schedule 13D/13G filing
\* A filing body is a sequence of lines; a header tag stands on a line of its
\* own.  A key/value line starts with its key as one token.
HeaderOpen == {<<"<SEC-HEADER>">>, <<"<sec-header>">>}
HeaderEnd == {<<"</SEC-HEADER>">>, <<"</sec-header>">>, <<"<DOCUMENT>">>, <<"<document>">>}

\* the lines of the header block, or NULL
extract_sec_header_block(text) ==
    LET opens == {i \in 1..Len(text) : text[i] \in HeaderOpen}
    IN IF opens = {} THEN NULL
       ELSE LET o == Min(opens)
                ends == {i \in (o + 1)..Len(text) : text[i] \in HeaderEnd}
            IN IF ends # {} THEN SubSeq(text, o + 1, Min(ends) - 1)
               ELSE SubSeq(text, o + 1, Len(text))

\* <<key, value>>, or NULL
parse_key_value_line(line) ==
    IF \A i \in 1..Len(line) : line[i] # ":" THEN NULL
    ELSE LET c == Min({i \in 1..Len(line) : line[i] = ":"})
             k == Strip(SubSeq(line, 1, c - 1))
             v == Strip(SubSeq(line, c + 1, Len(line)))
         IN IF k = <<>> THEN NULL ELSE <<k, v>>

HeaderKeys ==
    {"subject_company_name", "subject_company_cik", "filer_name", "filer_cik",
     "period_of_report"}

\* parse_13d_13g_header is called by the collector and defined nowhere in the
\* file: a mapping that holds, for each key the collector reads, the value of
\* the first key/value line of the header block that names it, and None when
\* the block is absent or has no such line.
parse_13d_13g_header(text) ==
    LET block == extract_sec_header_block(text)
    IN [key \in HeaderKeys |->
          IF block = NULL THEN NULL
          ELSE LET hits == {i \in 1..Len(block) :
                               /\ parse_key_value_line(block[i]) # NULL
                               /\ parse_key_value_line(block[i])[1] = <<key>>}
               IN IF hits = {} THEN NULL
                  ELSE parse_key_value_line(block[Min(hits)])[2]]

\* x or y
Or(x, y) == IF Truthy(x) THEN x ELSE y

\* variant: no fallback to the index row
Sched13Row_NoFallback(f, header) ==
    [form_type |-> f.form_type,
     filing_url |-> f.filing_url,
     filed_date |-> f.filed_date,
     issuer_name |-> header["subject_company_name"],
     issuer_cik |-> header["subject_company_cik"],
     filer_name |-> header["filer_name"],
     filer_cik |-> header["filer_cik"],
     period_of_report |-> header["period_of_report"]]

Sched13Row(f, header) ==
    [form_type |-> f.form_type,
     filing_url |-> f.filing_url,
     filed_date |-> f.filed_date,
     issuer_name |-> Or(header["subject_company_name"], f.company_name),
     issuer_cik |-> Or(header["subject_company_cik"], f.cik),
     filer_name |-> header["filer_name"],
     filer_cik |-> header["filer_cik"],
     period_of_report |-> header["period_of_report"]]

\* the body of the try block of collect_schedule_13d_13g
Sched13Step(f, a) ==
    IF a.kind = "transport" THEN [events |-> <<"fetch">>, recs |-> <<>>, escapes |-> FALSE]
    ELSE IF a.kind = "status"
    THEN [events |-> <<"fetch", "sleep">>, recs |-> <<>>, escapes |-> FALSE]
    ELSE [events |-> <<"fetch", "sleep">>,
          recs |-> <<Sched13Row(f, parse_13d_13g_header(a.text))>>,
          escapes |-> FALSE]

\* ---------------------------------------------------------------- what the archive can answer
LineForm4Tie == <<<<"6">>, <<"F">>, <<"4">>, <<"2", "0", "2", "4", "0", "1", "0", "5">>, <<"p", "6">>>>
LineSched13G == <<<<"7">>, <<"G">>, <<"S", "C", " ", "1", "3", "G">>, <<"2", "0", "2", "4", "0", "1", "0", "6">>, <<"p", "7">>>>
LineSched13Tie == <<<<"8">>, <<"H">>, <<"S", "C", " ", "1", "3", "D">>, <<"2", "0", "2", "4", "0", "1", "0", "3">>, <<"p", "8">>>>

TextA == RenderText(<<LineSeparator, LineForm4A, LineForm4, Line10K, LineSched13>>)
TextB == RenderText(<<LineForm4, LineSeparator, LineForm4Tie, LineSched13G, LineSched13Tie>>)
TextNoSeparator == RenderText(<<LineForm4, LineSched13>>)

IdxAnswers ==
    {[kind |-> "transport", text |-> <<>>], [kind |-> "status", text |-> <<>>]} \cup
    {[kind |-> "ok", text |-> t] : t \in {TextA, TextB, TextNoSeparator, <<>>}}

DocJoint == Tree(IssuerNode, <<OwnerDirector, OwnerOfficer>>, <<TxGrant, TxPurchase>>)
DocUndated == Tree(IssuerMissing, <<>>, <<TxSaleUndated, TxPurchase>>)
DocNoTable == Tree(IssuerNode, <<OwnerBare>>, <<>>)

Form4Answer(manifest, items, xml, doc) ==
    [manifest |-> manifest, items |-> items, xml |-> xml, doc |-> doc]

Form4Answers ==
    {Form4Answer(m, <<>>, "none", Malformed) : m \in {"transport", "status", "invalid"}} \cup
    {Form4Answer("items", ManifestNoXml, "none", Malformed)} \cup
    {Form4Answer("items", ManifestXml, x, Malformed) : x \in {"transport", "status"}} \cup
    {Form4Answer("items", ManifestXml, "ok", d) :
        d \in {Malformed, DocJoint, DocUndated, DocNoTable}}

BodyHeader ==
    <<<<"<SEC-HEADER>">>, <<"subject_company_name", ":", " ", "X">>,
      <<"subject_company_cik", ":", " ", "9">>, <<"filer_name", ":", " ", "F">>,
      <<"</SEC-HEADER>">>, <<"<DOCUMENT>">>, <<"x">>>>
BodyNoHeader == <<<<"x">>>>
BodyBlankName ==
    <<<<"<sec-header>">>, <<"subject_company_name", ":">>, <<"filer_cik", ":", " ", "8">>>>

Sched13Answers ==
    {[kind |-> "transport", text |-> <<>>], [kind |-> "status", text |-> <<>>]} \cup
    {[kind |-> "ok", text |-> t] : t \in {BodyHeader, BodyNoHeader, BodyBlankName}}

\* ---------------------------------------------------------------- the collectors
form_predicate_of(c) == IF c = "form4" THEN "is_form4" ELSE "is_sched13"

Init ==
    /\ call = NoCall
    /\ ret = <<>>
    /\ collector \in {"form4", "sched13"}
    /\ days_back \in 0..MaxDaysBack
    /\ max_filings \in 0..MaxFilingsArg
    /\ pc = "scan"
    /\ offset = 0
    /\ idx_served = <<>>
    /\ idx_days = <<>>
    /\ matched = <<>>
    /\ filings = <<>>
    /\ fi = 0
    /\ served = <<>>
    /\ collected = <<>>
    /\ rows = <<>>
    /\ net = <<>>

\* one iteration of the loop of iter_daily_indexes; dates count from today = 0
FetchDay ==
    /\ pc = "scan"
    /\ offset < days_back
    /\ \E a \in IdxAnswers :
          LET r == fetch_master_idx(a)
          IN /\ net' = net \o r.events
             /\ idx_served' = Append(idx_served, a)
             /\ IF r.raised
                THEN pc' = "raised" /\ UNCHANGED <<offset, idx_days>>
                ELSE /\ pc' = "scan"
                     /\ offset' = offset + 1
                     /\ idx_days' =
                           IF Truthy(r.txt)
                           THEN Append(idx_days, [date |-> 0 - offset, text |-> r.txt])
                           ELSE idx_days
    /\ UNCHANGED <<call, ret, collector, days_back, max_filings, matched, filings, fi,
                   served, collected, rows>>

\* filings.extend(parse_idx_for_forms(...)) for every day, then
\* sorted(filings, key=filed_date, reverse=True)[:max_filings]
SelectFilings ==
    /\ pc = "scan"
    /\ offset = days_back
    /\ LET all == Flatten([i \in 1..Len(idx_days) |->
                     parse_idx_for_forms(idx_days[i].text, form_predicate_of(collector))])
       IN /\ matched' = all
          /\ filings' = Take(sorted_reverse(all, [i \in 1..Len(all) |-> <<all[i].filed_date>>]),
                             max_filings)
    /\ pc' = "filing"
    /\ UNCHANGED <<call, ret, collector, days_back, max_filings, offset, idx_served,
                   idx_days, fi, served, collected, rows, net>>

\* one iteration of the per-filing loop of collect_form4_transactions
ProcessFiling4 ==
    /\ pc = "filing"
    /\ collector = "form4"
    /\ fi < Len(filings)
    /\ \E a \in Form4Answers :
          LET r == Form4Step(filings[fi + 1], a)
          IN /\ net' = net \o r.events
             /\ served' = Append(served, a)
             /\ collected' = collected \o r.recs
             /\ fi' = fi + 1
             /\ pc' = IF r.escapes THEN "raised" ELSE "filing"
    /\ UNCHANGED <<call, ret, collector, days_back, max_filings, offset, idx_served,
                   idx_days, matched, filings, rows>>

\* one iteration of the per-filing loop of collect_schedule_13d_13g
ProcessFiling13 ==
    /\ pc = "filing"
    /\ collector = "sched13"
    /\ fi < Len(filings)
    /\ \E a \in Sched13Answers :
          LET r == Sched13Step(filings[fi + 1], a)
          IN /\ net' = net \o r.events
             /\ served' = Append(served, a)
             /\ collected' = collected \o r.recs
             /\ fi' = fi + 1
             /\ pc' = IF r.escapes THEN "raised" ELSE "filing"
    /\ UNCHANGED <<call, ret, collector, days_back, max_filings, offset, idx_served,
                   idx_days, matched, filings, rows>>

\* the final sorted(..., reverse=True) and the return
FinalSort ==
    /\ pc = "filing"
    /\ fi = Len(filings)
    /\ rows' = IF collector = "form4"
               THEN sorted_reverse(collected,
                        [i \in 1..Len(collected) |-> Form4SortKey(collected[i])])
               ELSE sorted_reverse(collected,
                        [i \in 1..Len(collected) |-> <<collected[i].filed_date>>])
    /\ pc' = "done"
    /\ UNCHANGED <<call, ret, collector, days_back, max_filings, offset, idx_served,
                   idx_days, matched, filings, fi, served, collected, net>>

Next == FetchDay \/ SelectFilings \/ ProcessFiling4 \/ ProcessFiling13 \/ FinalSort

Spec == Init /\ [][Next]_vars

\* ================================================================ claims
KthOf(Q, k) == CHOOSE i \in Q : Cardinality({j \in Q : j < i}) = k - 1

\* ---------------------------------------------------------------- C1
ParsedXml == pc = "returned" /\ call.fn = "parse_form4_xml_transactions"

\* the record carries the fields of transaction node tx
CarriesTx(rec, tx) ==
    /\ rec.transaction_date = get(tx.transactionDate)
    /\ rec.transaction_code = get(tx.transactionCode)
    /\ rec.shares_held_after = safe_int_from_float(get(tx.sharesOwnedFollowingTransaction))

\* C1: a document with T non-derivative transaction nodes and O reportingOwner
\* nodes parses to T x O records when O >= 1, record (i-1)*O + j pairing the
\* i-th transaction with the j-th owner; to T records with insider_name,
\* insider_cik, relation and officer_title all null when O = 0; and to no
\* record when T = 0.
C1_FanOutLaw ==
    ParsedXml =>
        LET txn == call.doc.nonDerivativeTransaction
            own == call.doc.reportingOwner
            T == Len(txn)
            O == Len(own)
        IN /\ O >= 1 =>
                /\ Len(ret) = T * O
                /\ \A i \in 1..T : \A j \in 1..O :
                      LET rec == ret[(i - 1) * O + j]
                      IN /\ CarriesTx(rec, txn[i])
                         /\ rec.insider_name = get(own[j].rptOwnerName)
                         /\ rec.insider_cik = get(own[j].rptOwnerCik)
                         /\ rec.officer_title = get(own[j].officerTitle)
                         /\ rec.relation # NULL
           /\ O = 0 =>
                /\ Len(ret) = T
                /\ \A i \in 1..T :
                      /\ CarriesTx(ret[i], txn[i])
                      /\ ret[i].insider_name = NULL
                      /\ ret[i].insider_cik = NULL
                      /\ ret[i].relation = NULL
                      /\ ret[i].officer_title = NULL
           /\ T = 0 => ret = <<>>

C1_Witness ==
    /\ ParsedXml
    /\ Len(call.doc.nonDerivativeTransaction) = 2
    /\ Len(call.doc.reportingOwner) = 2
    /\ call.doc.reportingOwner[1] # call.doc.reportingOwner[2]
    /\ Len(ret) = 4

\* ---------------------------------------------------------------- C5
ParsedIdx == pc = "returned" /\ call.fn = "parse_idx_for_forms"

\* the source lines that start with the dashes of the separator
SeparatorLines(src) == {i \in 1..Len(src) : StartsWith(src[i][1], Dashes)}

\* the source lines the claim says produce an entry
Qualifying(src, p) ==
    {i \in 1..Len(src) :
        /\ SeparatorLines(src) # {}
        /\ i > Min(SeparatorLines(src))
        /\ Strip(RenderLine(src[i])) # <<>>
        /\ Len(src[i]) = 5
        /\ form_predicate(p, Strip(src[i][3]))}

\* C5: the index parser returns no entry for a text without separator line;
\* otherwise exactly one entry per non-blank line after the first separator
\* line that has exactly 5 fields and whose trimmed form_type satisfies the
\* predicate, in line order; every returned form_type satisfies the predicate.
C5_IndexParserFiltering ==
    ParsedIdx =>
        LET Q == Qualifying(call.src, call.p)
        IN /\ SeparatorLines(call.src) = {} => ret = <<>>
           /\ Len(ret) = Cardinality(Q)
           /\ \A k \in 1..Len(ret) :
                 /\ ret[k].cik = Strip(call.src[KthOf(Q, k)][1])
                 /\ ret[k].company_name = Strip(call.src[KthOf(Q, k)][2])
                 /\ ret[k].form_type = Strip(call.src[KthOf(Q, k)][3])
                 /\ ret[k].file_name = Strip(call.src[KthOf(Q, k)][5])
                 /\ form_predicate(call.p, ret[k].form_type)

C5_Witness ==
    /\ ParsedIdx
    /\ Len(call.src) = 3
    /\ call.src[2] = LineSeparator
    /\ call.src[1] = LineForm4
    /\ call.src[3] = LineForm4A
    /\ call.p = "is_form4"
    /\ Len(ret) = 1
    /\ ret[1].form_type = <<"4", "/", "A">>

\* ---------------------------------------------------------------- C6
IsDigits8(d) == Len(d) = 8 /\ \A i \in 1..8 : DigitVal(d[i]) >= 0

\* YYYYMMDD -> YYYY-MM-DD
CanonicalDate(d) == SubSeq(d, 1, 4) \o <<"-">> \o SubSeq(d, 5, 6) \o <<"-">> \o SubSeq(d, 7, 8)

\* C6 as stated: a compact 8-digit filed_date comes out as YYYY-MM-DD, any
\* other filed_date comes out trimmed.
C6_DateCanonicalized ==
    ParsedIdx =>
        LET Q == Qualifying(call.src, call.p)
        IN \A k \in 1..Len(ret) :
              LET raw == Strip(call.src[KthOf(Q, k)][4])
              IN ret[k].filed_date = IF IsDigits8(raw) THEN CanonicalDate(raw) ELSE raw

\* C6 amended: every filed_date, compact 8-digit or not, comes out as the
\* row's field with surrounding whitespace trimmed and nothing else changed.
C6_DateTrimmedOnly ==
    ParsedIdx =>
        LET Q == Qualifying(call.src, call.p)
        IN \A k \in 1..Len(ret) : ret[k].filed_date = Strip(call.src[KthOf(Q, k)][4])

C6_Witness ==
    /\ ParsedIdx
    /\ \E k \in 1..Len(ret) :
          /\ IsDigits8(ret[k].filed_date)
          /\ call.src[KthOf(Qualifying(call.src, call.p), k)][4] # ret[k].filed_date

\* ---------------------------------------------------------------- C2
Count(seq, x) == Cardinality({i \in 1..Len(seq) : seq[i] = x})

IsPermutation(a, b) ==
    /\ Len(a) = Len(b)
    /\ \A i \in 1..Len(a) : Count(a, a[i]) = Count(b, a[i])

\* the per-filing outcome "success": manifest served with an XML item, the
\* document served and parseable
Form4Succeeds(a) ==
    /\ a.manifest = "items"
    /\ \E i \in 1..Len(a.items) : IsXmlName(a.items[i])
    /\ a.xml = "ok"
    /\ a.doc.wellformed

\* what filing f contributes when it is the only filing of a batch and succeeds
AloneForm4(f, doc) ==
    LET t == parse_form4_xml_transactions(doc)
    IN [k \in 1..Len(t) |->
          [x \in DOMAIN t[k] \cup {"filing_url", "filed_date"} |->
              IF x = "filing_url" THEN f.filing_url
              ELSE IF x = "filed_date" THEN f.filed_date ELSE t[k][x]]]

\* C2: whatever each selected filing's outcome, the Form 4 run never raises
\* once the filings are selected and returns after the last filing; a failing
\* filing contributes no record and every other filing contributes exactly
\* the records it contributes alone, in filing order.
C2_FailureIsolation ==
    collector = "form4" =>
        /\ pc = "raised" => filings = <<>> /\ fi = 0 /\ offset < days_back
        /\ pc = "done" => fi = Len(filings) /\ IsPermutation(rows, collected)
        /\ Len(served) = fi
        /\ collected = Flatten([i \in 1..fi |->
                          IF Form4Succeeds(served[i])
                          THEN AloneForm4(filings[i], served[i].doc) ELSE <<>>])

C2_Witness ==
    /\ collector = "form4"
    /\ pc = "done"
    /\ fi = 2
    /\ ~served[1].doc.wellformed /\ served[1].xml = "ok"
    /\ Form4Succeeds(served[2])
    /\ Len(rows) = 4

\* ---------------------------------------------------------------- C3
\* C3: iter_daily_indexes never raises and holds exactly one (date, text)
\* entry for each scanned day whose fetch succeeded, most recent day first.
C3_WindowScan ==
    /\ pc # "raised"
    /\ LET ok == {i \in 1..Len(idx_served) : idx_served[i].kind = "ok"}
       IN /\ Len(idx_days) = Cardinality(ok)
          /\ \A k \in 1..Len(idx_days) :
                /\ idx_days[k].date = 0 - (KthOf(ok, k) - 1)
                /\ idx_days[k].text = idx_served[KthOf(ok, k)].text

\* ---------------------------------------------------------------- C4
\* the issuer name and id the header of a served body supplies
SuppliesIssuer(text) == text = BodyHeader

RankDesc(keys, m) ==
    1 + Cardinality({j \in 1..Len(keys) : KeyLess(keys[m], keys[j])})
      + Cardinality({j \in 1..(m - 1) : keys[j] = keys[m]})

DateKey(rec) ==
    <<IF rec.transaction_date = NULL THEN <<>> ELSE rec.transaction_date, rec.filed_date>>

\* C7: the returned Form 4 rows are the collected records, each at its rank
\* in the descending order of (transaction_date, filed_date) with a missing
\* transaction_date read as the empty string, records with equal keys in the
\* order they were collected; undated records come after all dated ones.
C7_FinalOrdering ==
    collector = "form4" /\ pc = "done" =>
        LET keys == [i \in 1..Len(collected) |-> DateKey(collected[i])]
        IN /\ Len(rows) = Len(collected)
           /\ \A m \in 1..Len(collected) : rows[RankDesc(keys, m)] = collected[m]
           /\ \A k \in 1..Len(rows) : \A l \in (k + 1)..Len(rows) :
                 /\ ~KeyLess(DateKey(rows[k]), DateKey(rows[l]))
                 /\ rows[k].transaction_date = NULL => rows[l].transaction_date = NULL

C7_Witness ==
    /\ collector = "form4"
    /\ pc = "done"
    /\ rows # collected
    /\ \E k \in 1..(Len(rows) - 1) :
          DateKey(rows[k]) = DateKey(rows[k + 1]) /\ rows[k] # rows[k + 1]
    /\ \E k \in 1..Len(rows) : rows[k].transaction_date = NULL
    /\ rows[1].transaction_date # NULL

\* ---------------------------------------------------------------- C8
\* C8: every Form 4 record carries the filing_url, the filed_date and the
\* form_type of one source filing.
C8_MetadataStamped ==
    collector = "form4" =>
        \A k \in 1..Len(collected) :
            /\ {"filing_url", "filed_date", "form_type"} \subseteq DOMAIN collected[k]
            /\ \E i \in 1..Len(filings) :
                  /\ collected[k].filing_url = filings[i].filing_url
                  /\ collected[k].filed_date = filings[i].filed_date
                  /\ collected[k].form_type = filings[i].form_type

\* ---------------------------------------------------------------- C9
\* C9: no fetch is issued right after another fetch; a sleep lies between
\* any two consecutive fetches.
C9_RequestPacing ==
    \A i \in 1..(Len(net) - 1) : ~(net[i] = "fetch" /\ net[i + 1] = "fetch")

\* ---------------------------------------------------------------- C10
FetchCount == Cardinality({i \in 1..Len(net) : net[i] = "fetch"})

\* C10: the filings processed are the first max_filings of the matching
\* index entries in descending filed_date order, ties in scan order; no
\* processed filing is older than an entry the cap excludes; at most
\* max_filings filings are fetched, none when max_filings = 0.
C10_FilingCap ==
    pc \in {"filing", "done"} =>
        LET keys == [i \in 1..Len(matched) |-> <<matched[i].filed_date>>]
        IN /\ Len(filings) = IF max_filings < Len(matched) THEN max_filings ELSE Len(matched)
           /\ \A m \in 1..Len(matched) :
                 IF RankDesc(keys, m) <= Len(filings)
                 THEN filings[RankDesc(keys, m)] = matched[m]
                 ELSE \A k \in 1..Len(filings) :
                         ~StrLess(filings[k].filed_date, matched[m].filed_date)
           /\ fi <= max_filings
           /\ Len(served) = fi
           /\ FetchCount <= Len(idx_served) + (IF collector = "form4" THEN 2 ELSE 1) * fi
           /\ max_filings = 0 =>
                 collected = <<>> /\ rows = <<>> /\ FetchCount = Len(idx_served)

C10_Witness ==
    /\ pc = "done"
    /\ max_filings >= 1
    /\ Len(matched) > max_filings
    /\ fi = max_filings
    /\ filings[1] # matched[1]
    /\ \E m \in 1..Len(matched) :
          \A k \in 1..Len(filings) : StrLess(matched[m].filed_date, filings[k].filed_date)

====
